---- MODULE Spec2Model ----
(***************************************************************************)
(* Interview session orchestration engine of the InterWiz backend:         *)
(* ConversationManagerService (the in-memory session store and the plan    *)
(* cursor), ResponseEvaluatorService (evaluation clamp and follow-up       *)
(* policy), InterviewOrchestratorService (startInterview, processResponse, *)
(* completeInterview), InterviewsService (proctoring data, trust score,    *)
(* weighted score, cancel) and InterviewGateway with its                   *)
(* InterviewSessionManager (connections, join, start, response-complete,   *)
(* proctor-event, disconnect).                                             *)
(*                                                                         *)
(* processResponse is an async function: it is split at the awaits that    *)
(* wait for external I/O (evaluator, chat, database); the code between two *)
(* such awaits runs without interruption on the Node.js event loop.        *)
(* JavaScript objects are shared by reference: the ConversationContext of  *)
(* a session and the per-question response objects live in heaps           *)
(* (contexts, respObjs) and are named by ids.                              *)
(***************************************************************************)
EXTENDS Integers, Sequences, FiniteSets, TLC

VARIABLES
  plan,         \* template.assessments of the interview (ordered by `order`)
  iv,           \* the interview row: status, proctorData, trustScore, scores
  dbResponses,  \* interviewResponse rows, keyed by questionId
  contexts,     \* heap of ConversationContext objects, by session id
  sessionStore, \* ConversationManagerService.sessionStore: ids currently stored
  respObjs,     \* heap of response objects {text, score, followUpsAsked}
  calls,        \* processResponse invocations, in order of their start
  completions,  \* results of the completeInterview invocations, in order
  session,      \* the gateway's InterviewSession fields used here
  proctorLog,   \* proctor-event messages handled by the gateway, in order
  sockets,      \* connections of the gateway, by socket id
  outbox,       \* what the last gateway handler emitted, in order
  clock,        \* Date.now(), in milliseconds since the model's start
  started       \* outcome of the latest startInterview invocation

vars == << plan, iv, dbResponses, contexts, sessionStore, respObjs, calls,
           completions, session, proctorLog, sockets, outbox, clock, started >>

----------------------------------------------------------------------------
\* Bounds of the model

MaxCalls == 4
MaxSerialCalls == 5
MaxSessions == 1
MaxCompletes == 2
MaxProctorEvents == 3
MaxProctorUpdates == 3
MaxSockets == 2
MaxObservers == 2
MaxTicks == 3
MaxStarts == 2
HalfDay == 43200000

----------------------------------------------------------------------------
\* Plans (template.assessments): assessmentId, weightage, question ids

PlanSingle ==
  << [assessmentId |-> "A", weightage |-> 100, questions |-> <<"q1", "q2">>] >>

PlanWeighted ==
  << [assessmentId |-> "A", weightage |-> 30, questions |-> <<"q1">>],
     [assessmentId |-> "B", weightage |-> 70, questions |-> <<"q2">>] >>

PlanUneven ==
  << [assessmentId |-> "A", weightage |-> 50, questions |-> <<"q1", "q2">>],
     [assessmentId |-> "B", weightage |-> 50, questions |-> <<"q3">>] >>

Plans == { PlanSingle, PlanWeighted }

\* templates that yield no first question: no assessment, an assessment
\* without questions, a first assessment without questions
PlanNone == << >>

PlanHollow ==
  << [assessmentId |-> "A", weightage |-> 100, questions |-> << >>] >>

PlanGap ==
  << [assessmentId |-> "A", weightage |-> 50, questions |-> << >>],
     [assessmentId |-> "B", weightage |-> 50, questions |-> <<"q1">>] >>

\* a single assessment of one and of three questions
PlanOne ==
  << [assessmentId |-> "A", weightage |-> 100, questions |-> <<"q1">>] >>

PlanTriple ==
  << [assessmentId |-> "A", weightage |-> 100, questions |-> <<"q1", "q2", "q3">>] >>

QuestionIds == { "q1", "q2", "q3" }

NoQuestion == "none"

----------------------------------------------------------------------------
\* Strings that the code inspects character by character are sequences of
\* one-character strings.

UNCLEAR == << "u", "n", "c", "l", "e", "a", "r" >>
VAGUE == << "v", "a", "g", "u", "e" >>
SPECIFIC == << "s", "p", "e", "c", "i", "f", "i", "c" >>
WeakVague == << "T", "o", "o", " ", "V", "A", "G", "U", "E" >>
WeakDepth == << "L", "a", "c", "k", "s", " ", "d", "e", "p", "t", "h" >>
WeakSpecific == << "N", "o", "t", " ", "S", "p", "e", "c", "i", "f", "i", "c" >>
WeakUnclear == << "U", "n", "c", "l", "e", "a", "r" >>
WeakFallback ==
  << "U", "n", "a", "b", "l", "e", " ", "t", "o", " ", "f", "u", "l", "l", "y",
     " ", "e", "v", "a", "l", "u", "a", "t", "e" >>

lowerChar(c) ==
  CASE c = "A" -> "a" [] c = "B" -> "b" [] c = "C" -> "c" [] c = "D" -> "d"
    [] c = "E" -> "e" [] c = "F" -> "f" [] c = "G" -> "g" [] c = "H" -> "h"
    [] c = "I" -> "i" [] c = "J" -> "j" [] c = "K" -> "k" [] c = "L" -> "l"
    [] c = "M" -> "m" [] c = "N" -> "n" [] c = "O" -> "o" [] c = "P" -> "p"
    [] c = "Q" -> "q" [] c = "R" -> "r" [] c = "S" -> "s" [] c = "T" -> "t"
    [] c = "U" -> "u" [] c = "V" -> "v" [] c = "W" -> "w" [] c = "X" -> "x"
    [] c = "Y" -> "y" [] c = "Z" -> "z" [] OTHER -> c

\* String.prototype.toLowerCase
toLowerCase(w) == [i \in 1..Len(w) |-> lowerChar(w[i])]

\* String.prototype.includes
includes(w, needle) ==
  \E i \in 1..(Len(w) - Len(needle) + 1) :
     SubSeq(w, i, i + Len(needle) - 1) = needle

\* variant: no clamping
noClamp(x) == x

\* Math.max(0, Math.min(100, x))
clamp100(x) == IF x < 0 THEN 0 ELSE IF x > 100 THEN 100 ELSE x

\* Math.round(num / den) for num >= 0, den > 0 (halves round up)
Round(num, den) == (2 * num + den) \div (2 * den)

RECURSIVE SumOver(_, _)
\* sum of f[x] over the finite set S
SumOver(f, S) ==
  IF S = {} THEN 0
  ELSE LET x == CHOOSE y \in S : TRUE IN f[x] + SumOver(f, S \ {x})

----------------------------------------------------------------------------
\* Inputs

\* candidate answers: the text and its length (responseText.length)
Answers == { [text |-> "a49", length |-> 49], [text |-> "a50", length |-> 50] }

NoAnswer == [text |-> "", length |-> 0]

\* scores the language model may return (it is asked for 0..100 but unchecked)
RawScores == { 0 - 5, 40, 80, 104 }

WeaknessLists == { << >>, << WeakVague >>, << WeakDepth, WeakSpecific >>, << WeakUnclear >> }

\* outcome of openaiService.generateWithJSON in evaluateResponse
EvalOutcomes ==
  [ ok : {TRUE}, score : RawScores, weaknesses : WeaknessLists ]
    \cup { [ ok |-> FALSE, score |-> 0, weaknesses |-> << >> ] }

----------------------------------------------------------------------------
\* ResponseEvaluatorService

\* variant: a failed evaluation scores 0 instead of the fallback 50
evaluateResponseNoFallback(outcome) ==
  [ score |-> IF outcome.ok THEN clamp100(outcome.score) ELSE 0,
    weaknesses |-> outcome.weaknesses ]

evaluateResponse(outcome) ==
  IF outcome.ok
    THEN [ score |-> IF outcome.score < 0 \/ outcome.score > 100
                       THEN clamp100(outcome.score) ELSE outcome.score,
           weaknesses |-> outcome.weaknesses ]
    ELSE [ score |-> 50, weaknesses |-> << WeakFallback >> ]

\* variant: the weakness keywords are matched case-sensitively
needsFollowUpCaseSensitive(evaluation, followUpsAlreadyAsked, responseLength) ==
  IF followUpsAlreadyAsked >= 2 THEN FALSE
  ELSE IF evaluation.score < 50 /\ followUpsAlreadyAsked < 1 THEN TRUE
  ELSE IF responseLength < 50 /\ followUpsAlreadyAsked < 1 THEN TRUE
  ELSE IF /\ \E i \in 1..Len(evaluation.weaknesses) :
                \/ includes(evaluation.weaknesses[i], UNCLEAR)
                \/ includes(evaluation.weaknesses[i], VAGUE)
                \/ includes(evaluation.weaknesses[i], SPECIFIC)
          /\ followUpsAlreadyAsked < 1 THEN TRUE
  ELSE FALSE

\* variant: a low score earns a second follow-up
needsFollowUpTwice(evaluation, followUpsAlreadyAsked, responseLength) ==
  IF followUpsAlreadyAsked >= 2 THEN FALSE
  ELSE IF evaluation.score < 50 THEN TRUE
  ELSE IF responseLength < 50 /\ followUpsAlreadyAsked < 1 THEN TRUE
  ELSE IF /\ \E i \in 1..Len(evaluation.weaknesses) :
                \/ includes(toLowerCase(evaluation.weaknesses[i]), UNCLEAR)
                \/ includes(toLowerCase(evaluation.weaknesses[i]), VAGUE)
                \/ includes(toLowerCase(evaluation.weaknesses[i]), SPECIFIC)
          /\ followUpsAlreadyAsked < 1 THEN TRUE
  ELSE FALSE

needsFollowUp(evaluation, followUpsAlreadyAsked, responseLength) ==
  IF followUpsAlreadyAsked >= 2 THEN FALSE
  ELSE IF evaluation.score < 50 /\ followUpsAlreadyAsked < 1 THEN TRUE
  ELSE IF responseLength < 50 /\ followUpsAlreadyAsked < 1 THEN TRUE
  ELSE IF /\ \E i \in 1..Len(evaluation.weaknesses) :
                \/ includes(toLowerCase(evaluation.weaknesses[i]), UNCLEAR)
                \/ includes(toLowerCase(evaluation.weaknesses[i]), VAGUE)
                \/ includes(toLowerCase(evaluation.weaknesses[i]), SPECIFIC)
          /\ followUpsAlreadyAsked < 1 THEN TRUE
  ELSE FALSE

----------------------------------------------------------------------------
\* ConversationManagerService

SessionIds == 1..MaxSessions

NoResponses == [q \in {} |-> 0]

\* the ConversationContext built by createSession; createdAt is the
\* timestamp createSession puts into the session id
NewContext ==
  [ currentAssessmentIndex |-> 0,
    currentQuestionIndex   |-> 0,
    conversationHistory    |-> << >>,
    responses              |-> NoResponses,
    createdAt              |-> clock ]

Msg(role, kind, about) == [ role |-> role, kind |-> kind, about |-> about ]

\* addMessage on a context object (getContext must succeed first)
addMessage(ctx, m) ==
  [ ctx EXCEPT !.conversationHistory = Append(@, m) ]

questionsOf(ctx) ==
  plan[ctx.currentAssessmentIndex + 1].questions

getCurrentQuestion(ctx) ==
  IF ctx.currentAssessmentIndex >= Len(plan) THEN NoQuestion
  ELSE IF ctx.currentQuestionIndex >= Len(questionsOf(ctx)) THEN NoQuestion
  ELSE questionsOf(ctx)[ctx.currentQuestionIndex + 1]

\* moveToNextQuestion reads template.assessments[currentAssessmentIndex]
\* .assessment and throws a TypeError when the index is past the plan
moveThrows(ctx) == ctx.currentAssessmentIndex >= Len(plan)

\* the context after moveToNextQuestion (when it does not throw)
moveToNextQuestion(ctx) ==
  IF ctx.currentQuestionIndex + 1 >= Len(questionsOf(ctx))
    THEN [ ctx EXCEPT !.currentAssessmentIndex = @ + 1,
                      !.currentQuestionIndex = 0 ]
    ELSE [ ctx EXCEPT !.currentQuestionIndex = @ + 1 ]

\* variant: complete as soon as the current assessment is exhausted
moveCompletesEarly(ctx) ==
  ctx.currentQuestionIndex + 1 >= Len(questionsOf(ctx))

\* the boolean moveToNextQuestion returns: the interview is complete
moveCompletes(ctx) ==
  /\ ctx.currentQuestionIndex + 1 >= Len(questionsOf(ctx))
  /\ ctx.currentAssessmentIndex + 1 >= Len(plan)

getProgress(ctx) ==
  [ currentAssessment |-> ctx.currentAssessmentIndex + 1,
    totalAssessments  |-> Len(plan),
    currentQuestion   |-> ctx.currentQuestionIndex + 1,
    totalQuestions    |-> IF ctx.currentAssessmentIndex < Len(plan)
                            THEN Len(questionsOf(ctx)) ELSE 0 ]

NoProgress ==
  [ currentAssessment |-> 0, totalAssessments |-> 0,
    currentQuestion |-> 0, totalQuestions |-> 0 ]

----------------------------------------------------------------------------
\* Scores

\* the assessment (index into plan) that holds question q
assessmentOf(q) ==
  CHOOSE i \in 1..Len(plan) : \E j \in 1..Len(plan[i].questions) : plan[i].questions[j] = q

\* questionId -> score of the response object a context holds for it
scoresOf(ctx) ==
  [ q \in DOMAIN ctx.responses |-> respObjs[ctx.responses[q]].score ]

\* variant: the mean is truncated
orchestratorOverallFloor(scores) ==
  IF DOMAIN scores # {}
    THEN SumOver(scores, DOMAIN scores) \div Cardinality(DOMAIN scores)
    ELSE 0

\* InterviewOrchestratorService.completeInterview: overall score
orchestratorOverall(scores) ==
  IF DOMAIN scores # {}
    THEN Round(SumOver(scores, DOMAIN scores), Cardinality(DOMAIN scores))
    ELSE 0

answeredIn(scores, i) ==
  { q \in DOMAIN scores : \E j \in 1..Len(plan[i].questions) : plan[i].questions[j] = q }

\* InterviewOrchestratorService.completeInterview: score breakdown by assessment
orchestratorBreakdown(scores) ==
  LET scored == { i \in 1..Len(plan) : answeredIn(scores, i) # {} }
      idOf   == { plan[i].assessmentId : i \in scored }
  IN  [ id \in idOf |->
          LET i == CHOOSE k \in scored : plan[k].assessmentId = id
          IN  Round(SumOver(scores, answeredIn(scores, i)),
                    Cardinality(answeredIn(scores, i))) ]

RECURSIVE ProductOf(_, _)
ProductOf(f, S) ==
  IF S = {} THEN 1
  ELSE LET x == CHOOSE y \in S : TRUE IN f[x] * ProductOf(f, S \ {x})

\* InterviewsService.calculateOverallScore over rows questionId -> score, each
\* row filed under the assessment of its question: the mean score of every
\* assessment with a score, weighted by weightage / 100 and divided by the
\* total weight, rounded.  The quotient is computed exactly (the code uses
\* IEEE doubles):  sum_i (S_i / n_i) w_i / sum_i w_i  with D = prod_i n_i.
calculateOverallScore(scores) ==
  LET scored == { i \in 1..Len(plan) : answeredIn(scores, i) # {} }
      n      == [ i \in scored |-> Cardinality(answeredIn(scores, i)) ]
      S      == [ i \in scored |-> SumOver(scores, answeredIn(scores, i)) ]
      D      == ProductOf(n, scored)
      num    == SumOver([ i \in scored |-> S[i] * plan[i].weightage * (D \div n[i]) ], scored)
      den    == D * SumOver([ i \in scored |-> plan[i].weightage ], scored)
  IN  IF DOMAIN scores = {} THEN 0
      ELSE IF den > 0 THEN Round(num, den) ELSE 0

\* InterviewsService.calculateScoreBreakdown: rounded mean per assessment
calculateScoreBreakdown(scores) ==
  LET scored == { i \in 1..Len(plan) : answeredIn(scores, i) # {} }
      idOf   == { plan[i].assessmentId : i \in scored }
  IN  [ id \in idOf |->
          LET i == CHOOSE k \in scored : plan[k].assessmentId = id
          IN  Round(SumOver(scores, answeredIn(scores, i)),
                    Cardinality(answeredIn(scores, i))) ]

----------------------------------------------------------------------------
\* Proctoring data (InterviewsService)

\* the ProctorData written by InterviewsService.start
NewProctorData ==
  [ faceDetections |-> << >>, tabSwitches |-> 0, fullscreenExits |-> 0,
    suspiciousActivity |-> << >> ]

\* a Partial<ProctorData>: `has` is the set of property names it carries
Partial(has, fd, ts, fe, sa) ==
  [ has |-> has, faceDetections |-> fd, tabSwitches |-> ts,
    fullscreenExits |-> fe, suspiciousActivity |-> sa ]

\* data.tabSwitches || 0  and  data.fullscreenExits || 0
numOrZero(data, key, value) == IF key \in data.has THEN value ELSE 0

\* the merge of updateProctorData
mergeProctorData(current, data) ==
  [ faceDetections     |-> IF "faceDetections" \in data.has
                             THEN data.faceDetections ELSE current.faceDetections,
    tabSwitches        |-> current.tabSwitches
                             + numOrZero(data, "tabSwitches", data.tabSwitches),
    fullscreenExits    |-> current.fullscreenExits
                             + numOrZero(data, "fullscreenExits", data.fullscreenExits),
    suspiciousActivity |-> current.suspiciousActivity
                             \o (IF "suspiciousActivity" \in data.has
                                   THEN data.suspiciousActivity ELSE << >>) ]

multipleFaces(fds) == Cardinality({ i \in 1..Len(fds) : fds[i] > 1 })

\* InterviewsService.calculateTrustScore and InterviewGateway.calculateTrustScore
calculateTrustScore(pd) ==
  clamp100(100 - multipleFaces(pd.faceDetections) * 5
               - pd.tabSwitches * 3
               - pd.fullscreenExits * 10
               - Len(pd.suspiciousActivity) * 15)

----------------------------------------------------------------------------
\* State

NullScore == 0 - 1

NoBreakdown == [a \in {} |-> 0]

\* how many proctor-event messages of each kind the gateway handled while
\* the interview was ONGOING (multiFace: face-detection with more than one
\* face), how many it dropped, and how many REST updates were made
NoProctorLog ==
  [ multiFace |-> 0, oneFace |-> 0, tabSwitch |-> 0, fullscreenExit |-> 0,
    suspicious |-> 0, dropped |-> 0, rest |-> 0 ]

\* InterviewSessionManager.sessions before the candidate joined.  The map
\* holds the session object under two keys: stored is the key of the session
\* id, exists the key of the interview id; id counts the sessions created;
\* orphans: the sessions of the interview stored under the key of another
\* session id (only joins that overlap inside createSession leave any)
NoSession ==
  [ exists |-> FALSE, candidateSocketId |-> 0, isActive |-> FALSE,
    aiSessionId |-> 0, currentQuestionId |-> NoQuestion, progress |-> NoProgress,
    interrupted |-> FALSE, completed |-> FALSE, trustScore |-> 100,
    stored |-> FALSE, id |-> 0, recruiterSocketIds |-> << >>, createdAt |-> 0,
    orphans |-> {} ]

SocketIds == 1..MaxSockets

\* recruiter sockets
ObserverIds == (MaxSockets + 1)..(MaxSockets + MaxObservers)

\* a socket: not yet connected ("new"), connected ("open") or disconnected
\* ("closed"); joined: client.data.sessionId is set, sessionId: its value;
\* userType: client.data.userType; observing: client.data.observingInterviewId
\* is set; creating: the session id of the createSession call the
\* join-interview handler of the socket is waiting in (0: in none)
NewSocket ==
  [ state |-> "new", joined |-> FALSE, sessionId |-> 0,
    userType |-> "candidate", observing |-> FALSE, creating |-> 0 ]

\* an emitted event; audioUrl is the audio reference a question carries
Event(name, audioUrl) == [ name |-> name, audioUrl |-> audioUrl ]

events(names) == [ i \in 1..Len(names) |-> Event(names[i], "") ]

\* no startInterview was invoked yet; by: the socket whose start-interview
\* handler made the invocation (0: the REST controller)
NoStart == [ error |-> "none", firstQuestion |-> NoQuestion, by |-> 0 ]

InitWith(planSet) ==
  /\ plan \in planSet
  /\ iv = [ status |-> "SCHEDULED", hasProctorData |-> FALSE,
            proctorData |-> NewProctorData, trustScore |-> NullScore,
            overallScore |-> NullScore, scoreBreakdown |-> NoBreakdown,
            recommendation |-> "" ]
  /\ dbResponses = [q \in {} |-> 0]
  /\ contexts = [s \in {} |-> 0]
  /\ sessionStore = {}
  /\ respObjs = [c \in {} |-> 0]
  /\ calls = << >>
  /\ completions = << >>
  /\ session = NoSession
  /\ proctorLog = NoProctorLog
  /\ sockets = [ s \in SocketIds \cup ObserverIds |-> NewSocket ]
  /\ outbox = << >>
  /\ clock = 0
  /\ started = NoStart

\* what a handler holds while it awaits inside handleInterviewComplete: the
\* summary completeInterview computed before its chat call, and the scores
\* InterviewsService.complete computed from the rows it read
NoSummary == [ overallScore |-> NullScore, scoreBreakdown |-> NoBreakdown ]

NoScores ==
  [ overallScore |-> NullScore, trustScore |-> NullScore,
    scoreBreakdown |-> NoBreakdown ]

\* the fields a pending or finished processResponse invocation carries;
\* evalFailed: the catch block of evaluateResponse ran for this invocation;
\* ws: the socket whose response-complete handler awaits the turn (0: the
\* caller is the REST controller, which only passes the turn on); asked:
\* currentQuestionId of the session object that handler read before the call;
\* at: the await of handleInterviewComplete the handler is suspended at
Call(sid, pc, answer, question, score, ref, isComplete, nextQuestion, progress) ==
  [ sid |-> sid, pc |-> pc, answer |-> answer, question |-> question,
    score |-> score, ref |-> ref, isComplete |-> isComplete,
    nextQuestion |-> nextQuestion, progress |-> progress, evalFailed |-> FALSE,
    ws |-> 0, asked |-> NoQuestion, at |-> "", summary |-> NoSummary,
    found |-> NoScores ]

inFlight == { c \in 1..Len(calls) : calls[c].pc \notin {"done", "error"} }

\* a call that ended: its InterviewTurn (or the exception)
finish(call, pc, isComplete, nextQuestion, progress) ==
  [ call EXCEPT !.pc = pc, !.isComplete = isComplete,
                !.nextQuestion = nextQuestion, !.progress = progress,
                !.answer = NoAnswer, !.ref = 0, !.evalFailed = FALSE,
                !.score = IF call.ws # 0 /\ pc = "done" THEN call.score ELSE 0 ]

throw(call) == finish(call, "error", FALSE, NoQuestion, NoProgress)

----------------------------------------------------------------------------
\* InterviewsService.start: REQUESTED/SCHEDULED -> ONGOING

start ==
  /\ iv.status = "SCHEDULED"
  /\ iv' = [ iv EXCEPT !.status = "ONGOING", !.hasProctorData = TRUE,
                       !.proctorData = NewProctorData ]
  /\ UNCHANGED << sockets, outbox, clock, started, plan, dbResponses, contexts, sessionStore, respObjs, calls,
                  completions, session, proctorLog >>

----------------------------------------------------------------------------
\* InterviewOrchestratorService.startInterview

\* the session id createSession hands out next
newSessionId == Cardinality(DOMAIN contexts) + 1

\* the context startInterview leaves in the store; chatOk:
\* generateOpeningMessage returned (the chat collaborator answered)
startedContext(chatOk) ==
  LET ctx0   == NewContext
      ctx1   == addMessage(ctx0, Msg("assistant", "opening", NoQuestion))
      first  == getCurrentQuestion(ctx0)
      ctx2   == addMessage(ctx1, Msg("assistant", "question", first))
  IN  IF ~chatOk THEN ctx0 ELSE IF first = NoQuestion THEN ctx1 ELSE ctx2

\* the exceptions startInterview throws
InvalidState == "Interview must be in ONGOING status to start AI session"

PlanEmpty == "No questions found in template"

ChatFailed == "generateOpeningMessage failed"

\* variant: the status of the interview is not checked
startOutcomeUnchecked(chatOk) ==
  IF ~chatOk
    THEN [ error |-> ChatFailed, firstQuestion |-> NoQuestion, by |-> 0 ]
  ELSE IF getCurrentQuestion(NewContext) = NoQuestion
    THEN [ error |-> PlanEmpty, firstQuestion |-> NoQuestion, by |-> 0 ]
  ELSE [ error |-> "", firstQuestion |-> getCurrentQuestion(NewContext), by |-> 0 ]

\* what startInterview returns (error = "") or throws
startOutcome(chatOk) ==
  IF iv.status # "ONGOING"
    THEN [ error |-> InvalidState, firstQuestion |-> NoQuestion, by |-> 0 ]
  ELSE IF ~chatOk
    THEN [ error |-> ChatFailed, firstQuestion |-> NoQuestion, by |-> 0 ]
  ELSE IF getCurrentQuestion(NewContext) = NoQuestion
    THEN [ error |-> PlanEmpty, firstQuestion |-> NoQuestion, by |-> 0 ]
  ELSE [ error |-> "", firstQuestion |-> getCurrentQuestion(NewContext), by |-> 0 ]

startInterview(chatOk) ==
  /\ Cardinality(DOMAIN contexts) < MaxSessions
  /\ started' = startOutcome(chatOk)
  /\ IF iv.status # "ONGOING"
       THEN UNCHANGED << contexts, sessionStore >>
       ELSE /\ contexts' = (newSessionId :> startedContext(chatOk)) @@ contexts
            /\ sessionStore' = sessionStore \cup {newSessionId}
  /\ UNCHANGED << sockets, outbox, clock, plan, iv, dbResponses, respObjs, calls, completions,
                  session, proctorLog >>

----------------------------------------------------------------------------
\* InterviewOrchestratorService.processResponse

\* lines 287-301: getContext, addMessage(user), getCurrentQuestion; the
\* invocation then awaits the evaluator
enterResponse(sid, answer, ws, asked) ==
  /\ sid \in DOMAIN contexts
  /\ IF sid \notin sessionStore
       THEN /\ calls' = Append(calls,
                  [ throw(Call(sid, "error", NoAnswer, NoQuestion,
                               0, 0, FALSE, NoQuestion, NoProgress))
                      EXCEPT !.ws = ws, !.asked = asked ])
            /\ UNCHANGED contexts
       ELSE LET ctx == addMessage(contexts[sid], Msg("user", "answer", NoQuestion))
                q   == getCurrentQuestion(ctx)
            IN  /\ contexts' = [ contexts EXCEPT ![sid] = ctx ]
                /\ calls' = Append(calls,
                     [ (IF q = NoQuestion
                          THEN Call(sid, "done", NoAnswer, NoQuestion, 0, 0, TRUE,
                                    NoQuestion, NoProgress)
                          ELSE Call(sid, "evaluating", answer, q, 0, 0, FALSE,
                                    NoQuestion, NoProgress))
                         EXCEPT !.ws = ws, !.asked = asked ])
  /\ UNCHANGED << sockets, outbox, clock, started, plan, iv, dbResponses, sessionStore, respObjs, completions,
                  session, proctorLog >>

\* processResponse called through the REST controller
beginResponse(sid, answer) == enterResponse(sid, answer, 0, NoQuestion)

\* one invocation at a time (a caller that waits for each turn's reply)
processResponse(sid, answer) ==
  /\ inFlight = {}
  /\ Len(calls) < MaxSerialCalls
  /\ beginResponse(sid, answer)

\* invocations that overlap: nothing in the gateway or the controller
\* holds a second request back while the first awaits
processResponseConcurrently(sid, answer) ==
  /\ Len(calls) < MaxCalls
  /\ beginResponse(sid, answer)

\* lines 303-323 and 352-354: the evaluator returned; look up or create the
\* response object, decide on a follow-up; without one the object is put
\* into context.responses and the invocation awaits the database
responseEvaluated(c, outcome) ==
  /\ c \in 1..Len(calls)
  /\ calls[c].pc = "evaluating"
  /\ LET call       == calls[c]
         ctx        == contexts[call.sid]
         evaluation == evaluateResponse(outcome)
         known      == call.question \in DOMAIN ctx.responses
         ref        == IF known THEN ctx.responses[call.question] ELSE c
         objs       == IF known THEN respObjs
                       ELSE (c :> [ text |-> call.answer.text,
                                    score |-> evaluation.score,
                                    followUpsAsked |-> 0 ]) @@ respObjs
         followUp   == needsFollowUp(evaluation, objs[ref].followUpsAsked,
                                     call.answer.length)
     IN  /\ respObjs' = objs
         /\ calls' = [ calls EXCEPT ![c] =
                         [ call EXCEPT !.pc = IF followUp THEN "followup" ELSE "saving",
                                       !.score = evaluation.score,
                                       !.ref = ref,
                                       !.evalFailed = ~outcome.ok ] ]
         /\ IF followUp
              THEN UNCHANGED << contexts, sessionStore >>
              ELSE /\ contexts' = [ contexts EXCEPT ![call.sid].responses =
                                      (call.question :> ref) @@ @ ]
                   /\ sessionStore' = sessionStore \cup {call.sid}
  /\ UNCHANGED << sockets, outbox, clock, started, plan, iv, dbResponses, completions, session, proctorLog >>

\* lines 330-350 and 430-443: generateFollowUp returned (or threw)
followUpGenerated(c, chatOk) ==
  /\ c \in 1..Len(calls)
  /\ calls[c].pc = "followup"
  /\ LET call == calls[c]
         ctx  == [ contexts[call.sid] EXCEPT !.responses =
                     (call.question :> call.ref) @@ @ ]
         ctx2 == addMessage(ctx, Msg("assistant", "followup", call.question))
     IN  IF ~chatOk
           THEN /\ calls' = [ calls EXCEPT ![c] = throw(call) ]
                /\ UNCHANGED << respObjs, contexts, sessionStore >>
           ELSE /\ respObjs' = [ respObjs EXCEPT ![call.ref].followUpsAsked = @ + 1 ]
                /\ contexts' = [ contexts EXCEPT ![call.sid] = ctx2 ]
                /\ sessionStore' = sessionStore \cup {call.sid}
                /\ calls' = [ calls EXCEPT ![c] =
                                finish(call, "done", FALSE, call.question,
                                       getProgress(ctx2)) ]
  /\ UNCHANGED << sockets, outbox, clock, started, plan, iv, dbResponses, completions, session, proctorLog >>

\* saveResponseToDatabase: update the row of the question or create it
saveResponseToDatabase(rows, q, answer, score) ==
  IF q \in DOMAIN rows
    THEN [ rows EXCEPT ![q].score = score ]
    ELSE (q :> [ assessmentId |-> plan[assessmentOf(q)].assessmentId,
                 score |-> score ]) @@ rows

\* updatedContext.currentAssessmentIndex > context.currentAssessmentIndex
movingToNewAssessment(updatedContext, context) ==
  updatedContext.currentAssessmentIndex > context.currentAssessmentIndex

\* lines 356-401: the database answered (or threw); moveToNextQuestion; when
\* a next question exists the invocation awaits its adaptation.  `context`
\* and `updatedContext` are the same object of the session store, so the
\* test for a new assessment compares the moved context with itself.
responseSaved(c, dbOk) ==
  /\ c \in 1..Len(calls)
  /\ calls[c].pc = "saving"
  /\ LET call  == calls[c]
         ctx   == contexts[call.sid]
         moved == moveToNextQuestion(ctx)
         next  == getCurrentQuestion(moved)
         withTransition ==
           IF movingToNewAssessment(moved, moved)
             THEN addMessage(moved, Msg("assistant", "transition", NoQuestion))
             ELSE moved
     IN  IF ~dbOk
           THEN /\ calls' = [ calls EXCEPT ![c] = throw(call) ]
                /\ UNCHANGED << dbResponses, contexts >>
           ELSE /\ dbResponses' = saveResponseToDatabase(dbResponses, call.question,
                                                         call.answer, call.score)
                /\ IF call.sid \notin sessionStore \/ moveThrows(ctx)
                     THEN /\ calls' = [ calls EXCEPT ![c] = throw(call) ]
                          /\ UNCHANGED contexts
                     ELSE IF moveCompletes(ctx)
                       THEN /\ contexts' = [ contexts EXCEPT ![call.sid] = moved ]
                            /\ calls' = [ calls EXCEPT ![c] =
                                 finish(call, "done", TRUE, NoQuestion, getProgress(moved)) ]
                     ELSE IF next = NoQuestion
                       THEN /\ contexts' = [ contexts EXCEPT ![call.sid] = moved ]
                            /\ calls' = [ calls EXCEPT ![c] =
                                 finish(call, "done", FALSE, NoQuestion, getProgress(moved)) ]
                     ELSE /\ contexts' = [ contexts EXCEPT ![call.sid] = withTransition ]
                          /\ calls' = [ calls EXCEPT ![c] =
                               [ call EXCEPT !.pc = "adapting", !.nextQuestion = next ] ]
  /\ UNCHANGED << sockets, outbox, clock, started, plan, iv, sessionStore, respObjs, completions, session, proctorLog >>

\* lines 403-443: the next question was adapted (adaptQuestionToContext falls
\* back to the base text, it never throws); addMessage, getProgress, return
questionAdapted(c) ==
  /\ c \in 1..Len(calls)
  /\ calls[c].pc = "adapting"
  /\ LET call == calls[c]
         ctx  == addMessage(contexts[call.sid],
                            Msg("assistant", "question", call.nextQuestion))
     IN  IF call.sid \notin sessionStore
           THEN /\ calls' = [ calls EXCEPT ![c] = throw(call) ]
                /\ UNCHANGED contexts
           ELSE /\ contexts' = [ contexts EXCEPT ![call.sid] = ctx ]
                /\ calls' = [ calls EXCEPT ![c] =
                     finish(call, "done", FALSE, call.nextQuestion, getProgress(ctx)) ]
  /\ UNCHANGED << sockets, outbox, clock, started, plan, iv, dbResponses, sessionStore, respObjs, completions,
                  session, proctorLog >>

----------------------------------------------------------------------------
\* InterviewOrchestratorService.completeInterview

\* what openaiService.chat yields for the closing narrative: it fails, or it
\* returns a text from which the keyword scan extracts this recommendation
Narratives == { "hire" }

NarrativeOutcomes == [ ok : {TRUE}, recommendation : Narratives ]
                       \cup { [ ok |-> FALSE, recommendation |-> "maybe" ] }

\* variant: a failed narrative fails the completion
summaryOfRethrow(sid, narrative) ==
  [ sid            |-> sid,
    ok             |-> narrative.ok,
    overallScore   |-> orchestratorOverall(scoresOf(contexts[sid])),
    scoreBreakdown |-> orchestratorBreakdown(scoresOf(contexts[sid])),
    evaluation     |-> IF narrative.ok THEN "narrative" ELSE "chat failed",
    recommendation |-> narrative.recommendation ]

\* the InterviewSummary computed from a context
summaryOf(sid, narrative) ==
  [ sid            |-> sid,
    ok             |-> TRUE,
    overallScore   |-> orchestratorOverall(scoresOf(contexts[sid])),
    scoreBreakdown |-> orchestratorBreakdown(scoresOf(contexts[sid])),
    evaluation     |-> IF narrative.ok THEN "narrative" ELSE "Summary generation failed",
    recommendation |-> IF narrative.ok THEN narrative.recommendation ELSE "maybe" ]

\* getContext threw NotFoundException('Session not found or expired')
sessionNotFound(sid) ==
  [ sid |-> sid, ok |-> FALSE, overallScore |-> NullScore,
    scoreBreakdown |-> NoBreakdown, evaluation |-> "NotFoundException",
    recommendation |-> "" ]

completeInterview(sid, narrative) ==
  /\ sid \in DOMAIN contexts
  /\ Len(completions) < MaxCompletes
  /\ inFlight = {}
  /\ IF sid \notin sessionStore
       THEN /\ completions' = Append(completions, sessionNotFound(sid))
            /\ UNCHANGED << iv, sessionStore >>
       ELSE LET summary == summaryOf(sid, narrative)
            IN  /\ completions' = Append(completions, summary)
                /\ iv' = [ iv EXCEPT !.overallScore = summary.overallScore,
                                     !.scoreBreakdown = summary.scoreBreakdown,
                                     !.recommendation = summary.recommendation ]
                /\ sessionStore' = sessionStore \ {sid}
  /\ UNCHANGED << sockets, outbox, clock, started, plan, dbResponses, contexts, respObjs, calls, session, proctorLog >>

----------------------------------------------------------------------------
\* InterviewsService.complete: ONGOING -> COMPLETED with the scores computed
\* from the stored responses and the stored proctoring data

\* scores of the rows that carry an assessment id, by question
scoresIn(rows) ==
  [ q \in { r \in DOMAIN rows : rows[r].assessmentId # "" } |-> rows[q].score ]

dbScores == scoresIn(dbResponses)

\* the interview row complete() writes, given the response rows it read
completeRow(row, rows) ==
  [ row EXCEPT !.status = "COMPLETED",
               !.overallScore = calculateOverallScore(scoresIn(rows)),
               !.trustScore = IF row.hasProctorData
                                THEN calculateTrustScore(row.proctorData)
                                ELSE NullScore,
               !.scoreBreakdown = calculateScoreBreakdown(scoresIn(rows)) ]

complete ==
  /\ iv.status = "ONGOING"
  /\ iv' = completeRow(iv, dbResponses)
  /\ UNCHANGED << sockets, outbox, clock, started, plan, dbResponses, contexts, sessionStore, respObjs, calls,
                  completions, session, proctorLog >>

----------------------------------------------------------------------------
\* Proctoring: InterviewGateway.handleJoinInterview (the part that creates
\* the gateway session), InterviewGateway.handleProctorEvent and the REST
\* endpoint POST interviews/:id/proctor

\* every connection of the gateway: candidates and recruiters
AllSockets == SocketIds \cup ObserverIds

\* handleConnection: userType comes from the handshake query (the tokens are
\* valid); ids of one kind are handed out in order
handleConnection(s) ==
  /\ sockets[s].state = "new"
  /\ \A t \in AllSockets :
       t < s /\ (t \in ObserverIds <=> s \in ObserverIds) => sockets[t].state # "new"
  /\ sockets' = [ sockets EXCEPT ![s].state = "open",
                    ![s].userType = IF s \in ObserverIds THEN "recruiter"
                                    ELSE "candidate" ]
  /\ outbox' = events(<< "connected" >>)
  /\ UNCHANGED << clock, started, plan, iv, dbResponses, contexts, sessionStore, respObjs, calls,
                  completions, session, proctorLog >>

totalQuestions ==
  SumOver([ i \in 1..Len(plan) |-> Len(plan[i].questions) ], 1..Len(plan))

\* InterviewSessionManager.createSession: the session is stored under its
\* session id and under the interview id
createSession(s) ==
  [ NoSession EXCEPT !.exists = TRUE, !.stored = TRUE, !.id = session.id + 1,
                     !.createdAt = clock, !.candidateSocketId = s,
                     !.progress = [ currentAssessment |-> 0,
                                    totalAssessments  |-> Len(plan),
                                    currentQuestion   |-> 0,
                                    totalQuestions    |-> totalQuestions ] ]

\* InterviewSessionManager.getSession(id) throws NotFoundException
sessionLost(id) == ~(session.stored /\ session.id = id)

\* variant: every join creates the session anew
handleJoinInterviewFresh(s) ==
  /\ sockets[s].state = "open"
  /\ iv.status \in {"ONGOING", "SCHEDULED"}
  /\ session' = createSession(s)
  /\ sockets' = [ sockets EXCEPT ![s].joined = TRUE, ![s].sessionId = session'.id ]
  /\ outbox' = events(<< "candidate-joined", "interview-ready" >>)
  /\ UNCHANGED << clock, started, plan, iv, dbResponses, contexts, sessionStore, respObjs, calls,
                  completions, proctorLog >>

\* join-interview sent on socket s (with the join token of the interview)
handleJoinInterview(s) ==
  /\ sockets[s].state = "open"
  /\ sockets[s].userType = "candidate"
  /\ IF iv.status \notin {"ONGOING", "SCHEDULED"}
       THEN /\ outbox' = events(<< "error" >>)
            /\ UNCHANGED << session, sockets >>
       ELSE IF session.exists /\ ~session.stored
       THEN /\ outbox' = events(<< "error" >>)
            /\ UNCHANGED << session, sockets >>
       ELSE /\ session' = IF ~session.exists THEN createSession(s)
                           ELSE [ session EXCEPT !.candidateSocketId = s ]
            /\ sockets' = [ sockets EXCEPT ![s].joined = TRUE,
                                           ![s].sessionId = session'.id ]
            /\ outbox' = events(<< "candidate-joined", "interview-ready" >>)
  /\ UNCHANGED << clock, started, plan, iv, dbResponses, contexts, sessionStore, respObjs, calls,
                  completions, proctorLog >>

\* the session ids of the createSession calls that have not returned
creatingIds == { sockets[s].creating : s \in SocketIds } \ {0}

\* the greatest session id computed so far
lastSessionId ==
  LET ids == {session.id} \cup creatingIds \cup { o.id : o \in session.orphans }
  IN  CHOOSE m \in ids : \A i \in ids : i <= m

\* join-interview sent on socket s while other join-interview handlers run:
\* the handler up to the await inside createSession (when the interview key
\* resolves to no session), the whole handler otherwise.  The id
\* session:<interview>:<Date.now()> equals that of a createSession call
\* entered within the same millisecond and is a new one otherwise
handleJoinInterviewConcurrently(s) ==
  /\ sockets[s].creating = 0
  /\ IF iv.status \in {"ONGOING", "SCHEDULED"} /\ ~session.exists
       THEN /\ sockets[s].state = "open"
            /\ sockets[s].userType = "candidate"
            /\ \E id \in creatingIds \cup {lastSessionId + 1} :
                 sockets' = [ sockets EXCEPT ![s].creating = id ]
            /\ UNCHANGED << outbox, clock, started, plan, iv, dbResponses, contexts,
                            sessionStore, respObjs, calls, completions, session,
                            proctorLog >>
       ELSE handleJoinInterview(s)

\* prisma.template.findUnique returned inside createSession: the session is
\* stored under its id and under the interview key, whatever the keys held;
\* then the rest of handleJoinInterview
sessionCreated(s) ==
  /\ sockets[s].creating # 0
  /\ LET id        == sockets[s].creating
         displaced == IF session.stored /\ session.id # id
                        THEN { [ id |-> session.id, createdAt |-> session.createdAt,
                                 candidateSocketId |-> session.candidateSocketId ] }
                        ELSE {}
     IN  /\ session' = [ createSession(s) EXCEPT
                           !.id = id,
                           !.orphans = { o \in session.orphans \cup displaced : o.id # id } ]
         /\ sockets' = [ sockets EXCEPT ![s].creating = 0, ![s].joined = TRUE,
                                        ![s].sessionId = id ]
  /\ outbox' = events(<< "candidate-joined", "interview-ready" >>)
  /\ UNCHANGED << clock, started, plan, iv, dbResponses, contexts, sessionStore, respObjs,
                  calls, completions, proctorLog >>

\* Array.prototype.includes on recruiterSocketIds
observes(sess, s) ==
  \E i \in 1..Len(sess.recruiterSocketIds) : sess.recruiterSocketIds[i] = s

\* variant: the id is pushed whether or not it is there
addRecruiterObserverAlways(sess, s) ==
  [ sess EXCEPT !.recruiterSocketIds = Append(@, s) ]

\* InterviewSessionManager.addRecruiterObserver
addRecruiterObserver(sess, s) ==
  IF ~observes(sess, s)
    THEN [ sess EXCEPT !.recruiterSocketIds = Append(@, s) ]
    ELSE sess

\* observe-interview sent on the recruiter socket s (the recruiter owns the
\* interview): the socket records observingInterviewId, not sessionId
handleObserveInterview(s) ==
  /\ sockets[s].state = "open"
  /\ sockets[s].userType = "recruiter"
  /\ sockets' = [ sockets EXCEPT ![s].observing = TRUE ]
  /\ IF session.exists /\ ~session.stored
       THEN /\ outbox' = events(<< "error" >>)
            /\ UNCHANGED session
       ELSE /\ session' = IF session.exists THEN addRecruiterObserver(session, s)
                           ELSE session
            /\ outbox' = events(<< "observation-started" >>)
  /\ UNCHANGED << clock, started, plan, iv, dbResponses, contexts, sessionStore, respObjs, calls,
                  completions, proctorLog >>

\* InterviewSessionManager.removeParticipant
removeParticipant(sess, s) ==
  LET updatedRecruiters == SelectSeq(sess.recruiterSocketIds, LAMBDA id : id # s)
  IN  IF sess.candidateSocketId = s
        THEN [ sess EXCEPT !.isActive = FALSE, !.candidateSocketId = 0,
                           !.recruiterSocketIds = updatedRecruiters ]
        ELSE [ sess EXCEPT !.recruiterSocketIds = updatedRecruiters ]

\* InterviewGateway.handleInterviewInterruption: the session it stores
handleInterviewInterruption(sess) ==
  [ sess EXCEPT !.isActive = FALSE, !.interrupted = TRUE ]

\* socket s went away: the cleanup runs for a socket that carries a
\* sessionId and stops at the first exception
handleDisconnect(s) ==
  /\ sockets[s].state = "open"
  /\ sockets' = [ sockets EXCEPT ![s].state = "closed" ]
  /\ IF sockets[s].joined /\ ~sessionLost(sockets[s].sessionId)
       THEN IF sockets[s].userType = "candidate"
              THEN /\ session' = handleInterviewInterruption(removeParticipant(session, s))
                   /\ outbox' = events(<< "interview-interrupted" >>)
              ELSE /\ session' = removeParticipant(session, s)
                   /\ outbox' = events(<< >>)
       ELSE /\ outbox' = events(<< >>)
            /\ UNCHANGED session
  /\ UNCHANGED << clock, started, plan, iv, dbResponses, contexts, sessionStore, respObjs, calls,
                  completions, proctorLog >>

\* variant: a failure of the text-to-speech service is not caught
generateQuestionAudioRethrow(ttsOk) == [ threw |-> ~ttsOk, url |-> "audio" ]

\* InterviewGateway.generateQuestionAudio: it never throws; the audio URL is
\* '' when the text-to-speech service or the upload failed
generateQuestionAudio(ttsOk) ==
  [ threw |-> FALSE, url |-> IF ttsOk THEN "audio" ELSE "" ]

\* the events with the question carrying the audio URL
withAudio(evs, audioUrl) ==
  [ i \in 1..Len(evs) |->
      IF evs[i].name = "question" THEN Event("question", audioUrl) ELSE evs[i] ]

\* the session of another interview, which this model does not follow
OtherSession == 0 - 1

\* join-interview sent on socket s for another interview: the socket carries
\* the id of that interview's session
handleJoinOtherInterview(s) ==
  /\ sockets[s].state = "open"
  /\ sockets[s].userType = "candidate"
  /\ ~sockets[s].joined
  /\ sockets' = [ sockets EXCEPT ![s].joined = TRUE, ![s].sessionId = OtherSession ]
  /\ outbox' = events(<< "candidate-joined", "interview-ready" >>)
  /\ UNCHANGED << clock, started, plan, iv, dbResponses, contexts, sessionStore, respObjs, calls,
                  completions, session, proctorLog >>

\* start-interview sent on socket s with data.sessionId = id: the handler
\* looks the session up by the id of the message
handleStartInterviewOf(s, id, chatOk, ttsOk) ==
  /\ sockets[s].state = "open"
  /\ Cardinality(DOMAIN contexts) < MaxStarts
  /\ IF sessionLost(id)
       THEN /\ outbox' = events(<< "error" >>)
            /\ UNCHANGED << contexts, sessionStore, session, started >>
       ELSE /\ started' = [ startOutcome(chatOk) EXCEPT !.by = s ]
            /\ IF iv.status # "ONGOING"
                 THEN /\ outbox' = events(<< "error" >>)
                      /\ UNCHANGED << contexts, sessionStore, session >>
                 ELSE /\ contexts' = (newSessionId :> startedContext(chatOk)) @@ contexts
                      /\ sessionStore' = sessionStore \cup {newSessionId}
                      /\ IF started'.error # ""
                           THEN /\ outbox' = events(<< "error" >>)
                                /\ UNCHANGED session
                           ELSE IF generateQuestionAudio(ttsOk).threw
                           THEN /\ session' = [ session EXCEPT
                                                  !.aiSessionId = newSessionId,
                                                  !.isActive = TRUE ]
                                /\ outbox' = events(<< "error" >>)
                           ELSE /\ session' = [ session EXCEPT
                                                  !.aiSessionId = newSessionId,
                                                  !.isActive = TRUE,
                                                  !.currentQuestionId =
                                                     started'.firstQuestion ]
                                /\ outbox' = withAudio(
                                     events(<< "question", "interview-started" >>),
                                     generateQuestionAudio(ttsOk).url)
  /\ UNCHANGED << clock, plan, iv, dbResponses, respObjs, calls, completions,
                  proctorLog, sockets >>

\* start-interview sent once on socket s with the session id it was given
handleStartInterview(s, chatOk, ttsOk) ==
  /\ sockets[s].joined
  /\ Cardinality(DOMAIN contexts) < MaxSessions
  /\ handleStartInterviewOf(s, sockets[s].sessionId, chatOk, ttsOk)

\* calls whose turn the response-complete handler has not yet passed on
undelivered == { c \in 1..Len(calls) : calls[c].ws # 0 }

\* response-complete sent on socket s, one at a time
handleResponseComplete(s, answer) ==
  /\ sockets[s].state = "open"
  /\ inFlight = {} /\ undelivered = {}
  /\ Len(calls) < MaxSerialCalls
  /\ IF /\ sockets[s].joined /\ ~sessionLost(sockets[s].sessionId)
        /\ session.aiSessionId # 0
       THEN enterResponse(session.aiSessionId, answer, s, session.currentQuestionId)
       ELSE /\ outbox' = events(<< "error" >>)
            /\ UNCHANGED << clock, started, plan, iv, dbResponses, contexts, sessionStore, respObjs,
                            calls, completions, session, proctorLog, sockets >>

\* InterviewsService.saveResponse as the gateway calls it: assessmentId is
\* session.currentAssessmentId || '' and currentAssessmentId is never set
saveResponse(rows, q, score) ==
  IF q \in DOMAIN rows
    THEN [ rows EXCEPT ![q].score = score ]
    ELSE (q :> [ assessmentId |-> "", score |-> score ]) @@ rows

\* handleInterviewComplete: the session marked inactive, completedAt set
completedSession(sess) == [ sess EXCEPT !.isActive = FALSE, !.completed = TRUE ]

\* lines 581-647 and handleInterviewComplete: processResponse returned to the
\* response-complete handler (or threw); ttsOk: the audio of the next
\* question could be generated
responseTurnReturned(c, narrative, ttsOk) ==
  /\ c \in undelivered
  /\ calls[c].pc \in {"done", "error"}
  /\ LET call       == calls[c]
         sid        == session.aiSessionId
         saveThrows == call.asked # NoQuestion /\ iv.status # "ONGOING"
         saved      == IF call.asked = NoQuestion THEN dbResponses
                       ELSE saveResponse(dbResponses, call.asked, call.score)
         lost       == sessionLost(sockets[call.ws].sessionId)
         progressed == [ session EXCEPT !.progress = call.progress ]
         summary    == summaryOf(sid, narrative)
         summarised == [ iv EXCEPT !.overallScore = summary.overallScore,
                                   !.scoreBreakdown = summary.scoreBreakdown,
                                   !.recommendation = summary.recommendation ]
     IN  /\ calls' = [ calls EXCEPT ![c] =
                         [ call EXCEPT !.ws = 0, !.score = 0, !.asked = NoQuestion ] ]
         /\ IF call.pc = "error" \/ saveThrows
              THEN /\ outbox' = events(<< "error" >>)
                   /\ UNCHANGED << dbResponses, session, iv, completions, sessionStore >>
              ELSE IF lost
              THEN /\ dbResponses' = saved
                   /\ outbox' = events(<< "error" >>)
                   /\ UNCHANGED << session, iv, completions, sessionStore >>
              ELSE IF call.isComplete /\ sid \notin sessionStore
              THEN /\ dbResponses' = saved
                   /\ session' = progressed
                   /\ completions' = Append(completions, sessionNotFound(sid))
                   /\ outbox' = events(<< "progress-update", "error" >>)
                   /\ UNCHANGED << iv, sessionStore >>
              ELSE IF call.isComplete
              THEN /\ dbResponses' = saved
                   /\ completions' = Append(completions, summary)
                   /\ sessionStore' = sessionStore \ {sid}
                   /\ IF iv.status = "ONGOING"
                        THEN /\ iv' = completeRow(summarised, saved)
                             /\ session' = completedSession(progressed)
                             /\ outbox' = events(<< "progress-update", "interview-complete",
                                                    "interview-completed" >>)
                        ELSE /\ iv' = summarised
                             /\ session' = progressed
                             /\ outbox' = events(<< "progress-update", "error" >>)
              ELSE IF call.nextQuestion # NoQuestion /\ generateQuestionAudio(ttsOk).threw
              THEN /\ dbResponses' = saved
                   /\ session' = progressed
                   /\ outbox' = events(<< "progress-update", "error" >>)
                   /\ UNCHANGED << iv, completions, sessionStore >>
              ELSE IF call.nextQuestion # NoQuestion
              THEN /\ dbResponses' = saved
                   /\ session' = [ progressed EXCEPT
                                     !.currentQuestionId = call.nextQuestion ]
                   /\ outbox' = withAudio(
                        events(<< "progress-update", "question", "question-asked" >>),
                        generateQuestionAudio(ttsOk).url)
                   /\ UNCHANGED << iv, completions, sessionStore >>
              ELSE /\ dbResponses' = saved
                   /\ session' = progressed
                   /\ outbox' = events(<< "progress-update" >>)
                   /\ UNCHANGED << iv, completions, sessionStore >>
  /\ UNCHANGED << clock, started, plan, contexts, respObjs, proctorLog, sockets >>

\* response-complete events that arrive while earlier ones are still being
\* handled: every event runs its own handler
handleResponseCompleteConcurrently(s, answer) ==
  /\ sockets[s].state = "open"
  /\ Len(calls) < MaxCalls
  /\ IF /\ sockets[s].joined /\ ~sessionLost(sockets[s].sessionId)
        /\ session.aiSessionId # 0
       THEN enterResponse(session.aiSessionId, answer, s, session.currentQuestionId)
       ELSE /\ outbox' = events(<< "error" >>)
            /\ UNCHANGED << clock, started, plan, iv, dbResponses, contexts, sessionStore, respObjs,
                            calls, completions, session, proctorLog, sockets >>

\* handlers suspended inside handleInterviewComplete
completing == { c \in undelivered : calls[c].at # "" }

\* lines 581-647 with handleInterviewComplete followed await by await:
\* processResponse returned to the handler (or threw); on isComplete the
\* handler enters completeInterview, which reads the context, computes the
\* scores and awaits the chat call of the narrative
turnReturned(c, ttsOk) ==
  /\ c \in undelivered \ completing
  /\ calls[c].pc \in {"done", "error"}
  /\ LET call       == calls[c]
         sid        == session.aiSessionId
         saveThrows == call.asked # NoQuestion /\ iv.status # "ONGOING"
         saved      == IF call.asked = NoQuestion THEN dbResponses
                       ELSE saveResponse(dbResponses, call.asked, call.score)
         lost       == sessionLost(sockets[call.ws].sessionId)
         progressed == [ session EXCEPT !.progress = call.progress ]
         passed     == [ call EXCEPT !.ws = 0, !.score = 0, !.asked = NoQuestion ]
         computed   == summaryOf(sid, [ ok |-> FALSE, recommendation |-> "maybe" ])
     IN  IF call.pc = "error" \/ saveThrows
           THEN /\ calls' = [ calls EXCEPT ![c] = passed ]
                /\ outbox' = events(<< "error" >>)
                /\ UNCHANGED << dbResponses, session, completions >>
           ELSE IF lost
           THEN /\ calls' = [ calls EXCEPT ![c] = passed ]
                /\ dbResponses' = saved
                /\ outbox' = events(<< "error" >>)
                /\ UNCHANGED << session, completions >>
           ELSE IF call.isComplete /\ sid \notin sessionStore
           THEN /\ calls' = [ calls EXCEPT ![c] = passed ]
                /\ dbResponses' = saved
                /\ session' = progressed
                /\ completions' = Append(completions, sessionNotFound(sid))
                /\ outbox' = events(<< "progress-update", "error" >>)
           ELSE IF call.isComplete
           THEN /\ calls' = [ calls EXCEPT ![c] =
                     [ call EXCEPT !.at = "chat",
                                   !.summary = [ overallScore |-> computed.overallScore,
                                                 scoreBreakdown |-> computed.scoreBreakdown ] ] ]
                /\ dbResponses' = saved
                /\ session' = progressed
                /\ outbox' = events(<< "progress-update" >>)
                /\ UNCHANGED completions
           ELSE IF call.nextQuestion # NoQuestion /\ generateQuestionAudio(ttsOk).threw
           THEN /\ calls' = [ calls EXCEPT ![c] = passed ]
                /\ dbResponses' = saved
                /\ session' = progressed
                /\ outbox' = events(<< "progress-update", "error" >>)
                /\ UNCHANGED completions
           ELSE IF call.nextQuestion # NoQuestion
           THEN /\ calls' = [ calls EXCEPT ![c] = passed ]
                /\ dbResponses' = saved
                /\ session' = [ progressed EXCEPT
                                  !.currentQuestionId = call.nextQuestion ]
                /\ outbox' = withAudio(
                     events(<< "progress-update", "question", "question-asked" >>),
                     generateQuestionAudio(ttsOk).url)
                /\ UNCHANGED completions
           ELSE /\ calls' = [ calls EXCEPT ![c] = passed ]
                /\ dbResponses' = saved
                /\ session' = progressed
                /\ outbox' = events(<< "progress-update" >>)
                /\ UNCHANGED completions
  /\ UNCHANGED << clock, started, plan, iv, sessionStore, contexts, respObjs, proctorLog,
                  sockets >>

\* completeInterview after its chat call: the interview row takes the
\* summary, the context is deleted, and the handler enters
\* InterviewsService.complete, which awaits findFirst
summaryGenerated(c, narrative) ==
  /\ c \in completing
  /\ calls[c].at = "chat"
  /\ LET call    == calls[c]
         summary == [ summaryOf(call.sid, narrative) EXCEPT
                        !.overallScore = call.summary.overallScore,
                        !.scoreBreakdown = call.summary.scoreBreakdown ]
     IN  /\ completions' = Append(completions, summary)
         /\ iv' = [ iv EXCEPT !.overallScore = summary.overallScore,
                              !.scoreBreakdown = summary.scoreBreakdown,
                              !.recommendation = summary.recommendation ]
         /\ sessionStore' = sessionStore \ {call.sid}
         /\ calls' = [ calls EXCEPT ![c] = [ call EXCEPT !.at = "findFirst" ] ]
  /\ UNCHANGED << clock, started, plan, dbResponses, contexts, respObjs, session, proctorLog,
                  sockets, outbox >>

\* InterviewsService.complete after findFirst: NotFoundException unless the
\* row was ONGOING; otherwise the scores are computed from the rows read and
\* the update is awaited
interviewFound(c) ==
  /\ c \in completing
  /\ calls[c].at = "findFirst"
  /\ LET call == calls[c]
         row  == completeRow(iv, dbResponses)
     IN  IF iv.status # "ONGOING"
           THEN /\ calls' = [ calls EXCEPT ![c] =
                     [ call EXCEPT !.ws = 0, !.score = 0, !.asked = NoQuestion,
                                   !.at = "", !.summary = NoSummary ] ]
                /\ outbox' = events(<< "error" >>)
           ELSE /\ calls' = [ calls EXCEPT ![c] =
                     [ call EXCEPT !.at = "update",
                                   !.found = [ overallScore |-> row.overallScore,
                                               trustScore |-> row.trustScore,
                                               scoreBreakdown |-> row.scoreBreakdown ] ] ]
                /\ UNCHANGED outbox
  /\ UNCHANGED << clock, started, plan, iv, dbResponses, contexts, sessionStore, respObjs,
                  completions, session, proctorLog, sockets >>

\* InterviewsService.complete after its update, and the rest of
\* handleInterviewComplete: both completion events, then updateSession
interviewUpdated(c) ==
  /\ c \in completing
  /\ calls[c].at = "update"
  /\ LET call == calls[c]
         lost == sessionLost(sockets[call.ws].sessionId)
     IN  /\ iv' = [ iv EXCEPT !.status = "COMPLETED",
                              !.overallScore = call.found.overallScore,
                              !.trustScore = call.found.trustScore,
                              !.scoreBreakdown = call.found.scoreBreakdown ]
         /\ calls' = [ calls EXCEPT ![c] =
              [ call EXCEPT !.ws = 0, !.score = 0, !.asked = NoQuestion, !.at = "",
                            !.summary = NoSummary, !.found = NoScores ] ]
         /\ IF lost
              THEN /\ outbox' = events(<< "interview-complete", "interview-completed",
                                         "error" >>)
                   /\ UNCHANGED session
              ELSE /\ outbox' = events(<< "interview-complete", "interview-completed" >>)
                   /\ session' = completedSession(session)
  /\ UNCHANGED << clock, started, plan, dbResponses, contexts, sessionStore, respObjs,
                  completions, proctorLog, sockets >>

\* the setInterval sweeps of both stores (every hour; 24 hours)
Day == 86400000

\* time passes
tick ==
  /\ clock < MaxTicks * HalfDay
  /\ clock' = clock + HalfDay
  /\ UNCHANGED << sockets, outbox, started, plan, iv, dbResponses, contexts, sessionStore,
                  respObjs, calls, completions, session, proctorLog >>

\* variant: the sweep deletes the key of the session id only
cleanedSessionsByIdOnly(sess, t) ==
  IF t - sess.createdAt > Day THEN [ sess EXCEPT !.stored = FALSE ] ELSE sess

\* InterviewSessionManager.cleanupExpiredSessions at time t: every key of the
\* map whose session is older than 24 hours is deleted
cleanedSessions(sess, t) ==
  LET stored == sess.stored /\ ~(t - sess.createdAt > Day)
      exists == sess.exists /\ ~(t - sess.createdAt > Day)
      kept   == { o \in sess.orphans : ~(t - o.createdAt > Day) }
  IN  IF ~stored /\ ~exists
        THEN [ NoSession EXCEPT !.id = sess.id, !.orphans = kept ]
        ELSE [ sess EXCEPT !.stored = stored, !.exists = exists, !.orphans = kept ]

cleanupExpiredSessions ==
  /\ session' = cleanedSessions(session, clock)
  /\ UNCHANGED << sockets, outbox, clock, started, plan, iv, dbResponses, contexts,
                  sessionStore, respObjs, calls, completions, proctorLog >>

\* ConversationManagerService.cleanupExpiredSessions at time t: the session
\* ids whose timestamp is older than 24 hours are deleted
cleanedStore(store, t) ==
  { sid \in store : ~(t - contexts[sid].createdAt > Day) }

cleanupExpiredContexts ==
  /\ sessionStore' = cleanedStore(sessionStore, clock)
  /\ UNCHANGED << sockets, outbox, clock, started, plan, iv, dbResponses, contexts,
                  respObjs, calls, completions, session, proctorLog >>

\* InterviewsService.cancel
cancel ==
  /\ iv.status # "COMPLETED"
  /\ iv' = [ iv EXCEPT !.status = "CANCELLED" ]
  /\ UNCHANGED << clock, started, plan, dbResponses, contexts, sessionStore, respObjs, calls,
                  completions, session, proctorLog, sockets, outbox >>

\* InterviewsService.updateProctorData on an ONGOING interview
updateProctorData(row, data) ==
  LET current == IF row.hasProctorData THEN row.proctorData ELSE NewProctorData
      updated == mergeProctorData(current, data)
  IN  [ row EXCEPT !.hasProctorData = TRUE, !.proctorData = updated,
                   !.trustScore = calculateTrustScore(updated) ]

ProctorTypes == { "face-detection", "tab-switch", "fullscreen-exit", "suspicious-activity" }

FaceCounts == { 1, 2 }

\* the object { [data.type]: data.data } the gateway hands to updateProctorData
eventAsPartial(type) == Partial({type}, << >>, 0, 0, << >>)

logged(log, type, faces) ==
  CASE type = "face-detection" /\ faces > 1 -> [ log EXCEPT !.multiFace = @ + 1 ]
    [] type = "face-detection" /\ faces <= 1 -> [ log EXCEPT !.oneFace = @ + 1 ]
    [] type = "tab-switch" -> [ log EXCEPT !.tabSwitch = @ + 1 ]
    [] type = "fullscreen-exit" -> [ log EXCEPT !.fullscreenExit = @ + 1 ]
    [] OTHER -> [ log EXCEPT !.suspicious = @ + 1 ]

eventsSeen(log) ==
  log.multiFace + log.oneFace + log.tabSwitch + log.fullscreenExit
    + log.suspicious + log.dropped

\* proctor-event of the given type; faces is data.facesDetected of a
\* face-detection event.  updateProctorData throws unless the interview is
\* ONGOING, and the handler then only logs the error.
handleProctorEvent(type, faces) ==
  /\ \E s \in SocketIds : /\ sockets[s].state = "open" /\ sockets[s].joined
                         /\ ~sessionLost(sockets[s].sessionId)
  /\ eventsSeen(proctorLog) < MaxProctorEvents
  /\ IF iv.status # "ONGOING"
       THEN /\ proctorLog' = [ proctorLog EXCEPT !.dropped = @ + 1 ]
            /\ UNCHANGED << iv, session, outbox >>
       ELSE LET row == updateProctorData(iv, eventAsPartial(type))
            IN  /\ iv' = row
                /\ session' = [ session EXCEPT !.trustScore =
                                  calculateTrustScore(row.proctorData) ]
                /\ proctorLog' = logged(proctorLog, type, faces)
                /\ outbox' = events(<< "trust-score-update" >>)
  /\ UNCHANGED << sockets, clock, started, plan, dbResponses, contexts, sessionStore, respObjs, calls,
                  completions >>

\* bodies of POST interviews/:id/proctor
ProctorUpdates ==
  { Partial({"tabSwitches"}, << >>, 1, 0, << >>),
    Partial({"fullscreenExits"}, << >>, 0, 1, << >>),
    Partial({"suspiciousActivity"}, << >>, 0, 0, << "s" >>),
    Partial({"faceDetections"}, << 2 >>, 0, 0, << >>),
    Partial({"faceDetections"}, << 1 >>, 0, 0, << >>),
    Partial({"tabSwitches", "fullscreenExits"}, << >>, 20, 5, << >>) }

postProctorData(data) ==
  /\ iv.status = "ONGOING"
  /\ proctorLog.rest < MaxProctorUpdates
  /\ iv' = updateProctorData(iv, data)
  /\ proctorLog' = [ proctorLog EXCEPT !.rest = @ + 1 ]
  /\ UNCHANGED << sockets, outbox, clock, started, plan, dbResponses, contexts, sessionStore, respObjs, calls,
                  completions, session >>

----------------------------------------------------------------------------
\* Specifications

\* the steps that follow the awaits of processResponse; outcomes are the
\* evaluator's replies, oks whether the chat and database calls succeed
TurnSteps(outcomes, oks) ==
  \/ \E c \in 1..Len(calls), outcome \in outcomes : responseEvaluated(c, outcome)
  \/ \E c \in 1..Len(calls), chatOk \in oks : followUpGenerated(c, chatOk)
  \/ \E c \in 1..Len(calls), dbOk \in oks : responseSaved(c, dbOk)
  \/ \E c \in 1..Len(calls) : questionAdapted(c)

\* the orchestrator with one processResponse at a time
Init == InitWith(Plans)

Next ==
  \/ start
  \/ \E chatOk \in BOOLEAN : startInterview(chatOk)
  \/ \E sid \in SessionIds, answer \in Answers : processResponse(sid, answer)
  \/ TurnSteps(EvalOutcomes, {TRUE})
  \/ \E sid \in SessionIds, narrative \in NarrativeOutcomes : completeInterview(sid, narrative)

Spec == Init /\ [][Next]_vars

\* the orchestrator with overlapping processResponse invocations
InitConcurrent == InitWith(Plans)

ConcurrentAnswers == { [text |-> "a50", length |-> 50] }

ConcurrentOutcomes ==
  { [ ok |-> TRUE, score |-> 40, weaknesses |-> << WeakDepth >> ],
    [ ok |-> TRUE, score |-> 80, weaknesses |-> << >> ] }

NextConcurrent ==
  \/ start
  \/ \E chatOk \in BOOLEAN : startInterview(chatOk)
  \/ \E sid \in SessionIds, answer \in ConcurrentAnswers :
        processResponseConcurrently(sid, answer)
  \/ TurnSteps(ConcurrentOutcomes, {TRUE})

SpecConcurrent == InitConcurrent /\ [][NextConcurrent]_vars

\* proctoring of an interview
InitProctor == InitWith({PlanWeighted})

NextProctor ==
  \/ start
  \/ handleConnection(1)
  \/ handleJoinInterview(1)
  \/ \E type \in ProctorTypes, faces \in FaceCounts : handleProctorEvent(type, faces)
  \/ \E data \in ProctorUpdates : postProctorData(data)

SpecProctor == InitProctor /\ [][NextProctor]_vars

\* turns one at a time in which the chat and the database may fail
InitFailures == InitWith({PlanWeighted})

NextFailures ==
  \/ start
  \/ startInterview(TRUE)
  \/ \E sid \in SessionIds, answer \in Answers : processResponse(sid, answer)
  \/ TurnSteps(ConcurrentOutcomes, BOOLEAN)

SpecFailures == InitFailures /\ [][NextFailures]_vars

\* overlapping invocations on a plan of three questions
InitOverlap == InitWith({PlanUneven})

SpecOverlap == InitOverlap /\ [][NextConcurrent]_vars

\* the gateway: candidate sockets that connect, join, start the interview,
\* answer one response at a time, disconnect and come back; the recruiter
\* may cancel the interview
InitGateway == InitWith({PlanWeighted})

NextGateway ==
  \/ start
  \/ \E s \in SocketIds : handleConnection(s)
  \/ \E s \in SocketIds : handleJoinInterview(s)
  \/ \E s \in SocketIds : handleDisconnect(s)
  \/ \E s \in SocketIds, ttsOk \in BOOLEAN : handleStartInterview(s, TRUE, ttsOk)
  \/ \E s \in SocketIds, answer \in ConcurrentAnswers : handleResponseComplete(s, answer)
  \/ TurnSteps(ConcurrentOutcomes, {TRUE})
  \/ \E c \in 1..Len(calls), narrative \in NarrativeOutcomes, ttsOk \in BOOLEAN :
       responseTurnReturned(c, narrative, ttsOk)
  \/ cancel

SpecGateway == InitGateway /\ [][NextGateway]_vars

\* the gateway when response-complete events overlap on a plan of one
\* question, the completion followed await by await; every answer scores 80,
\* so no follow-up is asked and no next question exists
InitCompletion == InitWith({PlanOne})

CompletionOutcomes == { [ ok |-> TRUE, score |-> 80, weaknesses |-> << >> ] }

NextCompletion ==
  \/ start
  \/ handleConnection(1)
  \/ handleJoinInterview(1)
  \/ handleStartInterview(1, TRUE, TRUE)
  \/ \E answer \in ConcurrentAnswers : handleResponseCompleteConcurrently(1, answer)
  \/ \E c \in 1..Len(calls), outcome \in CompletionOutcomes : responseEvaluated(c, outcome)
  \/ \E c \in 1..Len(calls) : responseSaved(c, TRUE)
  \/ \E c \in 1..Len(calls) : turnReturned(c, TRUE)
  \/ \E c \in 1..Len(calls), narrative \in NarrativeOutcomes : summaryGenerated(c, narrative)
  \/ \E c \in 1..Len(calls) : interviewFound(c)
  \/ \E c \in 1..Len(calls) : interviewUpdated(c)

SpecCompletion == InitCompletion /\ [][NextCompletion]_vars

\* one gateway, two candidates: socket 1 joins this interview, socket 2
\* another one; start-interview may arrive from either socket, more than
\* once, and names the session of this interview
InitShared == InitWith({PlanWeighted})

NextShared ==
  \/ start
  \/ \E s \in SocketIds : handleConnection(s)
  \/ handleJoinInterview(1)
  \/ handleJoinOtherInterview(2)
  \/ \E s \in SocketIds, chatOk \in BOOLEAN :
       handleStartInterviewOf(s, session.id, chatOk, TRUE)
  \/ \E answer \in ConcurrentAnswers : handleResponseComplete(1, answer)
  \/ TurnSteps(ConcurrentOutcomes, {TRUE})
  \/ \E c \in 1..Len(calls), narrative \in NarrativeOutcomes :
       responseTurnReturned(c, narrative, TRUE)

SpecShared == InitShared /\ [][NextShared]_vars

\* candidates whose join-interview handlers overlap, and recruiters observing
InitJoin == InitWith({PlanWeighted})

NextJoin ==
  \/ start
  \/ cancel
  \/ \E s \in AllSockets : handleConnection(s)
  \/ \E s \in SocketIds : handleJoinInterviewConcurrently(s)
  \/ \E s \in SocketIds : sessionCreated(s)
  \/ \E s \in ObserverIds : handleObserveInterview(s)

SpecJoin == InitJoin /\ [][NextJoin]_vars

\* the registry of the gateway: candidates and recruiters that connect, join
\* or observe and disconnect, and the hourly sweeps of both stores
InitRegistry == InitWith({PlanWeighted})

NextRegistry ==
  \/ start
  \/ \E s \in AllSockets : handleConnection(s)
  \/ \E s \in SocketIds : handleJoinInterview(s)
  \/ \E s \in ObserverIds : handleObserveInterview(s)
  \/ \E s \in AllSockets : handleDisconnect(s)
  \/ \E s \in SocketIds : handleStartInterview(s, TRUE, TRUE)
  \/ tick
  \/ cleanupExpiredSessions
  \/ cleanupExpiredContexts

SpecRegistry == InitRegistry /\ [][NextRegistry]_vars

\* starting the AI session through the REST controller and through the
\* gateway, on templates with and without a first question, before and after
\* InterviewsService.start and after a cancel
InitStart == InitWith({ PlanNone, PlanHollow, PlanGap, PlanWeighted })

NextStart ==
  \/ start
  \/ cancel
  \/ \E chatOk \in BOOLEAN : startInterview(chatOk)
  \/ \E s \in SocketIds : handleConnection(s)
  \/ \E s \in SocketIds : handleJoinInterview(s)
  \/ \E s \in SocketIds, chatOk \in BOOLEAN, ttsOk \in BOOLEAN :
       handleStartInterview(s, chatOk, ttsOk)
  \/ \E s \in SocketIds : handleDisconnect(s)

SpecStart == InitStart /\ [][NextStart]_vars

\* overlapping invocations on plans of one and of two questions, every
\* collaborator answering
InitShort == InitWith({ PlanOne, PlanSingle })

NextShort ==
  \/ start
  \/ startInterview(TRUE)
  \/ \E sid \in SessionIds, answer \in ConcurrentAnswers :
        processResponseConcurrently(sid, answer)
  \/ TurnSteps(ConcurrentOutcomes, {TRUE})

SpecShort == InitShort /\ [][NextShort]_vars

\* plans of a single assessment, answered one response at a time
InitSingle == InitWith({ PlanOne, PlanSingle, PlanTriple })

SingleOutcomes ==
  { [ ok |-> TRUE, score |-> 80, weaknesses |-> << >> ],
    [ ok |-> TRUE, score |-> 75, weaknesses |-> << >> ],
    [ ok |-> TRUE, score |-> 40, weaknesses |-> << >> ] }

NextSingle ==
  \/ start
  \/ startInterview(TRUE)
  \/ \E sid \in SessionIds, answer \in ConcurrentAnswers : processResponse(sid, answer)
  \/ TurnSteps(SingleOutcomes, {TRUE})
  \/ \E sid \in SessionIds, narrative \in NarrativeOutcomes : completeInterview(sid, narrative)

SpecSingle == InitSingle /\ [][NextSingle]_vars

\* one interview, its turns and its proctoring together, with the extreme
\* evaluator replies
ExtremeOutcomes ==
  { [ ok |-> TRUE, score |-> 0 - 5, weaknesses |-> << >> ],
    [ ok |-> TRUE, score |-> 104, weaknesses |-> << >> ] }

ExtremeUpdates ==
  { Partial({"tabSwitches", "fullscreenExits"}, << >>, 20, 5, << >>),
    Partial({"faceDetections"}, << 2 >>, 0, 0, << >>) }

NextScores ==
  \/ start
  \/ startInterview(TRUE)
  \/ \E sid \in SessionIds, answer \in ConcurrentAnswers : processResponse(sid, answer)
  \/ TurnSteps(ExtremeOutcomes, {TRUE})
  \/ \E sid \in SessionIds, narrative \in NarrativeOutcomes : completeInterview(sid, narrative)
  \/ complete
  \/ handleConnection(1)
  \/ handleJoinInterview(1)
  \/ handleProctorEvent("tab-switch", 1)
  \/ \E data \in ExtremeUpdates : postProctorData(data)

SpecScores == InitProctor /\ [][NextScores]_vars

----------------------------------------------------------------------------
\* Claims

\* C1: for every question, followUpsAsked of its response never exceeds 2,
\* and with followUpsAsked >= 2 needsFollowUp returns false for every score,
\* answer length and weakness list.
C1_FollowUpCap ==
  /\ \A o \in DOMAIN respObjs : respObjs[o].followUpsAsked <= 2
  /\ \A outcome \in EvalOutcomes, answer \in Answers, asked \in 2..(MaxCalls + 1) :
       ~needsFollowUp(evaluateResponse(outcome), asked, answer.length)

\* (assessment index, question index) of a context, compared lexicographically
LexLeq(a, b) ==
  \/ a.currentAssessmentIndex < b.currentAssessmentIndex
  \/ /\ a.currentAssessmentIndex = b.currentAssessmentIndex
     /\ a.currentQuestionIndex <= b.currentQuestionIndex

sameCursor(a, b) ==
  /\ a.currentAssessmentIndex = b.currentAssessmentIndex
  /\ a.currentQuestionIndex = b.currentQuestionIndex

atPlanEnd(ctx) ==
  ctx.currentAssessmentIndex = Len(plan) /\ ctx.currentQuestionIndex = 0

\* C2: no step moves the cursor of a session backwards in lexicographic
\* order, and whenever a processResponse call has returned isComplete = true
\* the cursor of its session is at the end of the plan.
C2_CursorForward ==
  [][ /\ \A sid \in DOMAIN contexts : LexLeq(contexts[sid], contexts'[sid])
      /\ \A c \in 1..Len(calls') :
           calls'[c].pc = "done" /\ calls'[c].isComplete
             => atPlanEnd(contexts'[calls'[c].sid]) ]_vars

\* a call moved the cursor to the end of the plan and returned isComplete
C2_Witness ==
  \E c \in 1..Len(calls) :
    /\ calls[c].pc = "done" /\ calls[c].isComplete
    /\ calls[c].progress # NoProgress
    /\ atPlanEnd(contexts[calls[c].sid])

C4_CompleteIdempotent ==
  \A i, j \in 1..Len(completions) :
    i < j /\ completions[i].sid = completions[j].sid /\ completions[i].ok
      => /\ completions[j].ok
         /\ completions[j].overallScore = completions[i].overallScore
         /\ completions[j].scoreBreakdown = completions[i].scoreBreakdown

\* C5: with response-complete events in flight together no question is
\* skipped: every question the cursor has passed has a recorded response.
C5_NoQuestionSkipped ==
  \A sid \in DOMAIN contexts :
    \A i \in 1..Len(plan) : \A j \in 1..Len(plan[i].questions) :
      \/ i < contexts[sid].currentAssessmentIndex + 1
      \/ /\ i = contexts[sid].currentAssessmentIndex + 1
         /\ j < contexts[sid].currentQuestionIndex + 1
      => plan[i].questions[j] \in DOMAIN contexts[sid].responses

\* C6: overallScore of an InterviewSummary is the weightage-weighted average
\* of the mean scores of the assessments with an answered question, rounded.
C6_WeightedOverall ==
  \A i \in 1..Len(completions) :
    completions[i].ok
      => completions[i].overallScore
           = calculateOverallScore(scoresOf(contexts[completions[i].sid]))

\* C7: when a turn ends without a further follow-up, the response held for
\* the question carries the text and the score of the answer just given.
C7_LastAnswerRecorded ==
  [][ \A c \in 1..Len(calls) :
        calls[c].pc = "evaluating" /\ calls'[c].pc = "saving"
          => LET o == respObjs'[contexts'[calls[c].sid].responses[calls[c].question]]
             IN  /\ o.text = calls[c].answer.text
                 /\ o.score = calls'[c].score ]_vars

InRange(x) == x \in 0..100

\* C8: every response score, the overall score, every per-assessment score
\* and the trust score are integers within 0..100 (when set).
C8_ScoresInRange ==
  /\ \A o \in DOMAIN respObjs : InRange(respObjs[o].score)
  /\ \A q \in DOMAIN dbResponses : InRange(dbResponses[q].score)
  /\ \A i \in 1..Len(completions) :
       completions[i].ok
         => /\ InRange(completions[i].overallScore)
            /\ \A a \in DOMAIN completions[i].scoreBreakdown :
                 InRange(completions[i].scoreBreakdown[a])
  /\ iv.overallScore # NullScore => InRange(iv.overallScore)
  /\ \A a \in DOMAIN iv.scoreBreakdown : InRange(iv.scoreBreakdown[a])
  /\ iv.trustScore # NullScore => InRange(iv.trustScore)
  /\ InRange(session.trustScore)

\* a finished interview whose raw scores and penalties went past both ends
C8_Witness ==
  /\ iv.status = "COMPLETED"
  /\ iv.trustScore = 0
  /\ iv.overallScore \in {0, 100}
  /\ DOMAIN iv.scoreBreakdown # {}
  /\ \E i \in 1..Len(completions) :
       completions[i].ok /\ completions[i].overallScore \in {0, 100}

\* the trust score the penalties of the handled proctor-event messages give
expectedTrust(log) ==
  clamp100(100 - 5 * log.multiFace - 3 * log.tabSwitch
               - 10 * log.fullscreenExit - 15 * log.suspicious)

\* C9: after proctor-event messages (and no other proctoring update) the
\* trust score of the session is 100 - 5 per multi-face detection - 3 per
\* tab switch - 10 per fullscreen exit - 15 per suspicious activity, clamped.
C9_TrustFromEvents ==
  session.exists /\ proctorLog.rest = 0 /\ proctorLog.dropped = 0
    => session.trustScore = expectedTrust(proctorLog)

\* C10: the stored trust score starts at 100 and no updateProctorData or
\* proctor-event raises it.
C10_TrustNonIncreasing ==
  [][ /\ iv.trustScore # NullScore => iv'.trustScore <= iv.trustScore
      /\ iv.trustScore = NullScore /\ iv'.trustScore # NullScore
           => iv'.trustScore <= 100
      /\ session'.trustScore <= session.trustScore ]_vars

\* the step is the disconnect of socket s
disconnects(s) == sockets[s].state = "open" /\ sockets'[s].state = "closed"

\* the step is a join-interview that makes socket s the candidate connection
joins(s) ==
  /\ sockets[s].state = "open" /\ sockets'[s].joined
  /\ session'.candidateSocketId = s
  /\ ~sockets[s].joined \/ session.candidateSocketId # s

emitted(event) == \E i \in 1..Len(outbox') : outbox'[i].name = event

C12_SupersededDisconnect ==
  [][ \A s \in SocketIds :
        ( disconnects(s) /\ sockets[s].joined
          /\ session.candidateSocketId \notin {0, s} )
          => /\ session' = session
             /\ ~emitted("interview-interrupted") ]_vars

\* C13: a disconnect interrupts the session (interview-interrupted broadcast,
\* interruptedAt set) only when the session was active, and a completed
\* session stays completed and inactive.
C13_InterruptedOnlyFromActive ==
  [][ /\ \A s \in SocketIds :
           disconnects(s) /\ emitted("interview-interrupted") => session.isActive
      /\ session'.interrupted /\ ~session.interrupted => session.isActive
      /\ session.completed => session'.completed /\ ~session'.isActive ]_vars

\* C14: the join-interview of the reconnected candidate makes an interrupted
\* session of a started, unfinished interview active again.
C14_RejoinReactivates ==
  [][ \A s \in SocketIds :
        ( joins(s) /\ session.interrupted /\ ~session.completed
          /\ session.aiSessionId \in sessionStore /\ iv.status = "ONGOING" )
          => session'.isActive ]_vars

\* C16: once the interview is cancelled no response-complete starts a turn
\* that succeeds or changes the ConversationState, and no socket joins.
C16_CancelTerminal ==
  [][ iv.status = "CANCELLED"
        => /\ Len(calls') > Len(calls)
                => calls'[Len(calls')].pc = "error" /\ contexts' = contexts
           /\ \A s \in SocketIds : ~joins(s) ]_vars

\* C18: in what a response-complete handler emits for a turn, the question
\* to the candidate comes no later than the progress-update to the observers.
C18_QuestionBeforeProgress ==
  \A i, j \in 1..Len(outbox) :
    outbox[i].name = "progress-update" /\ outbox[j].name = "question" => j <= i

userMessages(ctx) ==
  Cardinality({ i \in 1..Len(ctx.conversationHistory) :
                  ctx.conversationHistory[i].role = "user" })

\* C15: a turn that ended with an error left nothing behind: no response of
\* the context was recorded by it, and the transcript holds an answer only
\* for the turns that returned.
C15_AbortedTurnLeavesNothing ==
  /\ \A c \in 1..Len(calls) :
       calls[c].pc = "error"
         => \A q \in DOMAIN contexts[calls[c].sid].responses :
              contexts[calls[c].sid].responses[q] # c
  /\ inFlight = {}
       => \A sid \in DOMAIN contexts :
            userMessages(contexts[sid])
              = Cardinality({ c \in 1..Len(calls) :
                                calls[c].sid = sid /\ calls[c].pc = "done" })

\* the plan questions that come before question q
questionsBefore(q) ==
  { p \in QuestionIds :
      \E i \in 1..Len(plan) : \E k \in 1..Len(plan) :
        \E j \in 1..Len(plan[i].questions) : \E l \in 1..Len(plan[k].questions) :
          /\ plan[i].questions[j] = p /\ plan[k].questions[l] = q
          /\ i < k \/ (i = k /\ j < l) }

\* C17: when a turn returns the next plan question, every question before it
\* has a response recorded in the context and a stored row.
C17_RecordedBeforeNext ==
  \A c \in 1..Len(calls) :
    calls[c].pc = "done" /\ calls[c].nextQuestion \notin {NoQuestion, calls[c].question}
      => \A q \in questionsBefore(calls[c].nextQuestion) :
           /\ q \in DOMAIN contexts[calls[c].sid].responses
           /\ q \in DOMAIN dbResponses

\* the decision C19 states
followUpExpected(evaluation, followUpsAsked, answerLength) ==
  /\ followUpsAsked < 1
  /\ \/ evaluation.score < 50
     \/ answerLength < 50
     \/ \E i \in 1..Len(evaluation.weaknesses) :
          \E word \in {UNCLEAR, VAGUE, SPECIFIC} :
            includes(toLowerCase(evaluation.weaknesses[i]), word)

\* needsFollowUp agrees with that decision on every input
followUpAgrees ==
  \A outcome \in EvalOutcomes, asked \in 0..3, answer \in Answers :
    needsFollowUp(evaluateResponse(outcome), asked, answer.length)
      <=> followUpExpected(evaluateResponse(outcome), asked, answer.length)

FallbackText == "Summary generation failed"

\* C20: every completeInterview of a stored session returns a summary; when
\* the closing narrative failed it carries the fallback text, recommendation
\* maybe and the scores computed from the responses.
C20_SummaryWithoutNarrative ==
  \A i \in 1..Len(completions) :
    /\ completions[i].ok \/ completions[i].evaluation = "NotFoundException"
    /\ completions[i].ok /\ completions[i].evaluation # "narrative"
         => /\ completions[i].evaluation = FallbackText
            /\ completions[i].recommendation = "maybe"
            /\ completions[i].overallScore
                 = orchestratorOverall(scoresOf(contexts[completions[i].sid]))
            /\ completions[i].scoreBreakdown
                 = orchestratorBreakdown(scoresOf(contexts[completions[i].sid]))

\* a completion with answered questions and a failed narrative
C20_Witness ==
  \E i \in 1..Len(completions) :
    /\ completions[i].ok /\ completions[i].evaluation = FallbackText
    /\ DOMAIN completions[i].scoreBreakdown # {}

\* C21: after a socket disconnects its id is neither in the observer list
\* nor in the candidate slot of the session.
C21_LeaverRemoved ==
  [][ \A s \in AllSockets :
        disconnects(s)
          => ~observes(session', s) /\ session'.candidateSocketId # s ]_vars

noDuplicates(seq) == \A i, j \in 1..Len(seq) : seq[i] = seq[j] => i = j

\* C22: recruiterSocketIds never holds a socket id twice, and adding an id
\* that is in it returns the session unchanged.
C22_ObserverAddIdempotent ==
  /\ noDuplicates(session.recruiterSocketIds)
  /\ \A s \in ObserverIds :
       /\ noDuplicates(addRecruiterObserver(session, s).recruiterSocketIds)
       /\ observes(session, s) => addRecruiterObserver(session, s) = session

\* both recruiters are in the list and the one who came first is still
\* connected after the latest observe-interview
C22_Witness ==
  /\ session.recruiterSocketIds = << MaxSockets + 1, MaxSockets + 2 >>
  /\ sockets[MaxSockets + 1].state = "open"
  /\ outbox = events(<< "observation-started" >>)

\* the times of the model from now on
Times == { t \in { k * HalfDay : k \in 0..MaxTicks } : t >= clock }

\* C23: a sweep at any time from now on deletes both keys of a session older
\* than 24 hours and every ConversationContext older than 24 hours, completed
\* or not, and leaves a session or context of at most 24 hours as it is.
C23_SweepRemovesExpired ==
  \A t \in Times :
    LET after == cleanedSessions(session, t)
        kept  == cleanedStore(sessionStore, t)
    IN  /\ t - session.createdAt > Day => ~after.stored /\ ~after.exists
        /\ t - session.createdAt <= Day => after = session
        /\ kept \subseteq sessionStore
        /\ \A sid \in sessionStore :
             sid \in kept <=> t - contexts[sid].createdAt <= Day

\* the session of 36 hours was swept, the context of exactly 24 hours is kept
C23_Witness ==
  /\ session.id = 1 /\ ~session.stored /\ ~session.exists
  /\ clock = 3 * HalfDay
  /\ \E sid \in sessionStore : clock - contexts[sid].createdAt = Day

returned(sid) ==
  { c \in 1..Len(calls) : calls[c].sid = sid /\ calls[c].pc = "done" }

\* C25: once 3N processResponse calls of a session have returned, N the
\* number of questions of the plan, one of them returned isComplete = true.
C25_LengthBounded ==
  \A sid \in DOMAIN contexts :
    Cardinality(returned(sid)) >= 3 * totalQuestions
      => \E c \in returned(sid) : calls[c].isComplete

\* how often the latest handler emitted the event
count(event) == Cardinality({ i \in 1..Len(outbox') : outbox'[i].name = event })

\* the handler of an answer to the last question of the plan has completed
\* the session
lastAnswerCompleted ==
  /\ session.completed
  /\ \E c \in 1..Len(calls) :
        /\ calls[c].question = plan[Len(plan)].questions[Len(plan[Len(plan)].questions)]
        /\ calls[c].pc = "done" /\ calls[c].isComplete /\ calls[c].ws = 0

\* C26: when the turn of a response-complete returns isComplete = true on an
\* ONGOING interview, the handler emits interview-complete and
\* interview-completed once each and no question, and the session becomes
\* inactive; once the handler of the answer to the last question has completed
\* the session, no handler emits a question or another completion.
C26_CompletesOnLastAnswer ==
  [][ /\ \A c \in undelivered :
           ( calls[c].pc = "done" /\ calls[c].isComplete /\ calls'[c].ws = 0
             /\ iv.status = "ONGOING" /\ session.aiSessionId \in sessionStore )
             => /\ count("interview-complete") = 1
                /\ count("interview-completed") = 1
                /\ count("question") = 0
                /\ ~session'.isActive /\ session'.completed
                /\ \E i \in 1..Len(completions') : completions'[i].ok
      /\ lastAnswerCompleted
           => /\ session'.completed /\ ~session'.isActive
              /\ session'.aiSessionId = session.aiSessionId
              /\ session'.currentQuestionId = session.currentQuestionId
              /\ ( outbox' # outbox \/ \E c \in undelivered : calls'[c].ws = 0 )
                   => /\ count("question") = 0
                      /\ count("interview-complete") = 0
                      /\ count("interview-completed") = 0 ]_vars

\* C27: for a plan of one assessment, a summary computed over recorded
\* responses has exactly one scoreBreakdown entry, that of the assessment,
\* equal to overallScore, both the rounded mean of the recorded scores; three
\* questions scored 80 each give 80.
C27_SingleAssessmentScore ==
  Len(plan) = 1
    => \A i \in 1..Len(completions) :
         LET summary == completions[i]
             scores  == scoresOf(contexts[summary.sid])
         IN  summary.ok /\ DOMAIN scores # {}
               => /\ DOMAIN summary.scoreBreakdown = { plan[1].assessmentId }
                  /\ summary.scoreBreakdown[plan[1].assessmentId] = summary.overallScore
                  /\ summary.overallScore
                       = Round(SumOver(scores, DOMAIN scores), Cardinality(DOMAIN scores))
                  /\ ( Cardinality(DOMAIN scores) = 3 /\ \A q \in DOMAIN scores : scores[q] = 80 )
                       => summary.overallScore = 80

\* three questions of one assessment, scored 80, 75 and 75: both values are 77
C27_Witness ==
  /\ plan = PlanTriple
  /\ \E i \in 1..Len(completions) :
       /\ completions[i].ok
       /\ completions[i].overallScore = 77
       /\ completions[i].scoreBreakdown["A"] = 77
       /\ DOMAIN contexts[completions[i].sid].responses = { "q1", "q2", "q3" }

\* the question events of the latest handler
questionEvents == { i \in 1..Len(outbox') : outbox'[i].name = "question" }

\* C28: whether or not the audio of the question could be generated, the
\* handler of a turn that returned a next question emits the question once,
\* with the audio URL or with an empty one, and stores its id as the current
\* question together with the progress of the turn; the same holds for the
\* first question of start-interview.
C28_QuestionWithoutAudio ==
  [][ /\ \A c \in undelivered :
           ( calls'[c].ws = 0 /\ calls[c].pc = "done" /\ ~calls[c].isComplete
             /\ calls[c].nextQuestion # NoQuestion /\ iv.status = "ONGOING" )
             => /\ Cardinality(questionEvents) = 1
                /\ \A i \in questionEvents : outbox'[i].audioUrl \in { "", "audio" }
                /\ session'.currentQuestionId = calls[c].nextQuestion
                /\ session'.progress = calls[c].progress
                /\ calls[c].asked \in DOMAIN dbResponses'
      /\ session'.aiSessionId # session.aiSessionId
           => /\ Cardinality(questionEvents) = 1
              /\ session'.currentQuestionId = started'.firstQuestion
              /\ session'.currentQuestionId # NoQuestion ]_vars

\* the second question went out without audio and is the current question
C28_Witness ==
  /\ outbox = withAudio(events(<< "progress-update", "question", "question-asked" >>), "")
  /\ session.currentQuestionId = "q2"
  /\ "q1" \in DOMAIN dbResponses

\* followUpsAsked of the response a context holds for question q (0: none)
followUpsOf(ctx, objs, q) ==
  IF q \in DOMAIN ctx.responses THEN objs[ctx.responses[q]].followUpsAsked ELSE 0

\* C29: the step in which a turn returns a follow-up leaves the cursor where
\* it is, raises followUpsAsked of the response of its question by exactly 1,
\* returns isComplete = false and the same question, and leaves the response
\* of every other question as it was.
C29_FollowUpFrame ==
  [][ \A c \in 1..Len(calls) :
        calls[c].pc = "followup" /\ calls'[c].pc = "done"
          => LET sid == calls[c].sid
                 q   == calls[c].question
                 was == contexts[sid]
                 ctx == contexts'[sid]
             IN  /\ sameCursor(was, ctx)
                 /\ followUpsOf(ctx, respObjs', q) = followUpsOf(was, respObjs, q) + 1
                 /\ ~calls'[c].isComplete
                 /\ calls'[c].nextQuestion = q
                 /\ DOMAIN ctx.responses = DOMAIN was.responses \cup {q}
                 /\ \A p \in DOMAIN was.responses \ {q} :
                      /\ ctx.responses[p] = was.responses[p]
                      /\ respObjs'[ctx.responses[p]] = respObjs[was.responses[p]] ]_vars

\* question q is the first question of an assessment after the first one
opensAssessment(q) ==
  \E k \in 2..Len(plan) : Len(plan[k].questions) > 0 /\ plan[k].questions[1] = q

\* C30: in every transcript the first question of a later assessment comes
\* directly after a transition message.
C30_TransitionBeforeQuestion ==
  \A sid \in DOMAIN contexts :
    LET history == contexts[sid].conversationHistory
    IN  \A i \in 1..Len(history) :
          history[i].kind = "question" /\ opensAssessment(history[i].about)
            => i > 1 /\ history[i - 1].kind = "transition"

\* a turn of a response that found the cursor past the end of the plan
pastEnd(call) ==
  call.pc = "done" /\ call.isComplete /\ call.question = NoQuestion

\* the recorded responses and scores and the cursors are what they were
recordsKept ==
  /\ dbResponses' = dbResponses
  /\ respObjs' = respObjs
  /\ \A sid \in DOMAIN contexts :
       /\ sameCursor(contexts'[sid], contexts[sid])
       /\ contexts'[sid].responses = contexts[sid].responses

\* C31: a response that finds the cursor past the end of the plan returns
\* isComplete = true with no next question without having awaited the
\* evaluator, and no step of its handling changes a cursor, a recorded
\* response or score of a context, or a stored response row.
C31_PastEndNoOp ==
  [][ \A c \in 1..Len(calls') :
        ( pastEnd(calls'[c]) /\ (c > Len(calls) \/ calls'[c] # calls[c]) )
          => /\ calls'[c].nextQuestion = NoQuestion
             /\ c <= Len(calls) => pastEnd(calls[c])
             /\ recordsKept ]_vars

\* C32: while the session of the interview exists, every connected socket
\* that issued observe-interview is in its recruiterSocketIds.
C32_ObserversAreMembers ==
  \A s \in ObserverIds :
    ( sockets[s].state = "open" /\ sockets[s].observing
      /\ session.exists /\ session.stored )
      => observes(session, s)

\* C33: a start-interview handled for a socket that is bound to a session
\* creates a ConversationContext or changes the AI session of a registry
\* session only if that registry session is the one the socket is bound to.
C33_OwnSessionOnly ==
  [][ ( /\ started'.by # 0
        /\ sockets[started'.by].joined
        /\ \/ DOMAIN contexts' # DOMAIN contexts
           \/ session'.aiSessionId # session.aiSessionId )
        => sockets[started'.by].sessionId = session.id ]_vars

\* the call answers a follow-up: its question already has a response with a
\* follow-up asked
answersFollowUp(call) ==
  /\ call.question \in DOMAIN contexts[call.sid].responses
  /\ respObjs[contexts[call.sid].responses[call.question]].followUpsAsked >= 1

C35_StartedOnce ==
  [][ ( session.aiSessionId # 0 /\ session'.id = session.id )
        => /\ session'.aiSessionId = session.aiSessionId
           /\ DOMAIN contexts' = DOMAIN contexts ]_vars

\* C36: after the gateway completed the interview, the overallScore of the
\* interview row equals the overallScore of the summary it announced.
C36_AnnouncedIsPersisted ==
  ( /\ session.completed /\ iv.status = "COMPLETED"
    /\ Len(completions) > 0 /\ completions[Len(completions)].ok )
    => iv.overallScore = completions[Len(completions)].overallScore


progressInRange(p) ==
  /\ p.currentAssessment \in 1..p.totalAssessments
  /\ p.currentQuestion \in 1..p.totalQuestions

\* C38: the progress record of every turn processResponse has returned is
\* within range: 1 <= currentAssessment <= totalAssessments and
\* 1 <= currentQuestion <= totalQuestions, the turn that returns
\* isComplete = true included.
C38_ProgressInRange ==
  \A c \in 1..Len(calls) :
    calls[c].pc = "done" => progressInRange(calls[c].progress)


\* C39: a start that fails (interview not ONGOING, no first question, or the
\* chat collaborator failing on the opening message) leaves the store of
\* conversation states as it was before the start.
C39_FailedStartLeavesNoState ==
  [][ ( started' # started /\ started'.error # "none" )
        => /\ contexts' = contexts
           /\ sessionStore' = sessionStore ]_vars


\* C37: at any time the interview has at most one registry session, and the
\* key of the session id and the key of the interview id resolve to the same
\* session record, also while join-interview handlers for the interview
\* overlap.
C37_OneSessionPerInterview ==
  /\ session.orphans = {}
  /\ session.exists <=> session.stored

====
